---- MODULE Spec2Model ----
(***************************************************************************)
(* Model of the smart-todo-ai request handlers (app/api/tasks/route.ts,    *)
(* app/api/context/route.ts, app/api/ai/analyze/route.ts and the           *)
(* recommendations route), the data access layer (lib/db.ts), the AI       *)
(* gateway (lib/ai-service.ts) and the components that call the handlers   *)
(* (AIInsights, TaskForm, ContextManager), whose fetches settle with any   *)
(* outcome.                                                                *)
(*                                                                         *)
(* Reading of the SQL: every statement is modelled by the relational       *)
(* meaning of its text (each ${x} denotes the value of x, "key = $key"     *)
(* assigns updates[key] to column key), and every statement may also be    *)
(* rejected by the store (the storeOk input), which raises an error in the *)
(* handler and leaves the tables unchanged.                                *)
(*                                                                         *)
(* Values.  Numbers, timestamps and dates are integers; strings are        *)
(* strings.  A timestamp string is the instant it denotes (an integer), or *)
(* EmptyDate for "", or NotADate for a string that denotes none.           *)
(* JavaScript undefined and null / SQL NULL are the sentinels below, one   *)
(* pair per type, because a field has one type in the model.               *)
(***************************************************************************)
EXTENDS Integers, Sequences, FiniteSets, TLC

\* ------------------------------------------------------------------ bounds
MaxTaskId == 2         \* Spec: task ids the SERIAL sequence hands out
MaxTime == 2           \* Spec: the clock runs over 1..MaxTime
MaxEdited == 2         \* SpecFields: task ids the SERIAL sequence hands out
MaxCreated == 1        \* SpecCreate: task ids the SERIAL sequence hands out
MaxContextId == 1      \* SpecCreate: context entry ids handed out
MaxRows == 2           \* SpecSort: rows the tasks table holds
MaxOwned == 2          \* SpecUsers: task ids the SERIAL sequence hands out
MaxEntries == 2        \* SpecUsers: context entry ids handed out
MaxDeleted == 2        \* SpecDelete: task ids the SERIAL sequence hands out
MaxAnalysed == 2       \* SpecInsights: task ids the SERIAL sequence hands out
MaxNotes == 1          \* SpecInsights: context entry ids handed out
MaxWindowRows == 3     \* SpecWindow: rows the context_entries table holds
MaxStored == 2         \* SpecEntries: context entry ids handed out
MaxDay == 2            \* SpecEntries: the clock runs over 1..MaxDay
MaxHandled == 1        \* SpecEndpoints: task ids the SERIAL sequence hands out
MaxRecorded == 2       \* SpecEndpoints: context entry ids handed out
MaxStamped == 1        \* SpecStamp: task ids the SERIAL sequence hands out
MaxAdvised == 1        \* SpecAdvisory: task ids the SERIAL sequence hands out
MaxPatched == 1        \* SpecSubsets: task ids the SERIAL sequence hands out
MaxShown == 2          \* SpecPanel: recommendations a refresh may answer with
MaxInFlight == 2       \* SpecPanel: Add Task requests in flight at once

\* ------------------------------------------------------- values of the code
NULL == -1             \* null / SQL NULL in a numeric or timestamp field
UNDEFINED == -2        \* undefined (an absent key) in a numeric field
NonInteger == -3       \* a number such as 1.5: within [1,3], not an integer
NotADate == -4         \* a string that is no timestamp ("next friday")
EmptyDate == 0         \* the empty string "" in a date/timestamp field
NotANumber == -5       \* a userId such as "abc": Number(userId) is NaN
NullStr == "<null>"             \* null / SQL NULL in a text field
UndefinedStr == "<undefined>"   \* undefined (an absent key) in a text field
DefaultPriority == 3
DefaultDays == 7

\* JavaScript truthiness of the values above (x || y, if (x), !x)
Falsy(x) == x \in {NULL, UNDEFINED, 0}
FalsyStr(s) == s \in {NullStr, UndefinedStr, ""}

\* a || null, as createTask writes it for every optional column
OrNull(x) == IF Falsy(x) THEN NULL ELSE x
OrNullStr(s) == IF FalsyStr(s) THEN NullStr ELSE s

UserRows == {1, 2}                  \* ids present in the users table
Statuses == {"pending", "in_progress", "completed"}

\* ------------------------------------------------------------------- state
VARIABLES
  tasks,           \* the tasks table: a set of rows
  contextEntries,  \* the context_entries table: a set of rows
  nextTaskId,      \* the SERIAL sequence of tasks.id
  nextContextId,   \* the SERIAL sequence of context_entries.id
  now,             \* CURRENT_TIMESTAMP / new Date()
  req,             \* the POST /tasks request in flight between its awaits
  resp,            \* the response of the handler that returned in this step
  insights,        \* the state of the AIInsights component
  taskForm,        \* the state of the TaskForm component
  contextManager,  \* the state of the ContextManager component
  fetches,         \* the fetch() calls of the components that have not settled
  handled          \* the fetch that settled in this step and what its handler did

uiVars == <<insights, taskForm, contextManager, fetches, handled>>
vars == <<tasks, contextEntries, nextTaskId, nextContextId, now, req, resp, uiVars>>

NoTask ==
  [ id |-> UNDEFINED, user_id |-> UNDEFINED, title |-> UndefinedStr,
    description |-> UndefinedStr, priority |-> UNDEFINED, status |-> UndefinedStr,
    deadline |-> UNDEFINED, ai_suggested_priority |-> UNDEFINED,
    ai_suggested_deadline |-> UNDEFINED, context_tags |-> <<>>,
    created_at |-> UNDEFINED, updated_at |-> UNDEFINED, completed_at |-> UNDEFINED ]

Idle == [ pc |-> "idle" ]
NoResponse == [ op |-> "none" ]

\* the server's state, which the components cannot touch
serverVars == <<tasks, contextEntries, nextTaskId, nextContextId, now, req, resp>>

\* a fetch() that has not settled: the handler that awaits it and, for
\* createTaskFromRecommendation, the arguments its closure holds. Requests of
\* one handler with the same arguments are one element of the set.
NoRecommendation == 0
Fetch(kind, recommendation, index) ==
  [ kind |-> kind, recommendation |-> recommendation, index |-> index ]
\* how a fetch settles: response.ok, a response that is not ok, a rejection
Outcomes == {"ok", "notOk", "throws"}
NoEvent ==
  [ kind |-> "none", outcome |-> "none", recommendation |-> NoRecommendation,
    index |-> NULL, notified |-> FALSE ]

\* the components after mounting: ai-insights.tsx 30-35 and the effect of
\* 119-122, task-form.tsx 22-27, ContextManager 21-23
InitUI ==
  /\ insights = [ analysis |-> FALSE, recommendations |-> <<>>,
                  isLoadingAnalysis |-> TRUE, isLoadingRecommendations |-> TRUE,
                  isCreatingTask |-> NULL, error |-> FALSE ]
  /\ taskForm = [ title |-> "", description |-> "", priority |-> "3",
                  isLoading |-> FALSE ]
  /\ contextManager = [ content |-> "", isLoading |-> FALSE ]
  /\ fetches = { Fetch("loadAnalysis", NoRecommendation, NULL),
                 Fetch("loadRecommendations", NoRecommendation, NULL) }
  /\ handled = NoEvent

Init ==
  /\ tasks = {}
  /\ contextEntries = {}
  /\ nextTaskId = 1
  /\ nextContextId = 1
  /\ now = 1
  /\ req = Idle
  /\ resp = NoResponse
  /\ InitUI

\* ------------------------------------------------------- tables (the DDL)
\* INTEGER column: takes an integer or NULL
IntegerColumn(v) == v # NonInteger /\ v # UNDEFINED
\* TIMESTAMP / DATE column: takes a timestamp or NULL, no other string
TimestampColumn(v) == v \notin {NotADate, EmptyDate, UNDEFINED}
\* user_id INTEGER REFERENCES users(id)
UserIdColumn(v) == v = NULL \/ v \in UserRows
\* title VARCHAR(500) NOT NULL
TitleColumn(s) == s \notin {NullStr, UndefinedStr}

\* does the tasks table accept the row?
TaskRowAccepted(row) ==
  /\ UserIdColumn(row.user_id)
  /\ TitleColumn(row.title)
  /\ IntegerColumn(row.priority)
  /\ TimestampColumn(row.deadline)
  /\ IntegerColumn(row.ai_suggested_priority)
  /\ TimestampColumn(row.ai_suggested_deadline)
  /\ TimestampColumn(row.completed_at)

\* ------------------------------------------------------ Data access layer
\* all sequences that enumerate the set S once each: the order in which a
\* scan meets the rows, which SQL leaves open
RECURSIVE Scans(_)
Scans(S) ==
  IF S = {} THEN {<<>>}
  ELSE UNION { { <<x>> \o s : s \in Scans(S \ {x}) } : x \in S }

\* the order with NULL before every value
AscNullsFirst(x, y) ==
  IF x = y THEN 0
  ELSE IF x = NULL THEN -1
  ELSE IF y = NULL THEN 1
  ELSE IF x < y THEN -1 ELSE 1

\* ASC NULLS LAST on one key: <0 before, 0 tie, >0 after
AscNullsLast(x, y) ==
  IF x = y THEN 0
  ELSE IF x = NULL THEN 1
  ELSE IF y = NULL THEN -1
  ELSE IF x < y THEN -1 ELSE 1

CompletedLast(t) == IF t.status = "completed" THEN 1 ELSE 0

\* ORDER BY CASE WHEN status = 'completed' THEN 1 ELSE 0 END, priority ASC,
\*          deadline ASC NULLS LAST, created_at DESC
OrderByTasks(a, b) ==
  IF CompletedLast(a) # CompletedLast(b) THEN CompletedLast(a) - CompletedLast(b)
  ELSE IF AscNullsLast(a.priority, b.priority) # 0 THEN AscNullsLast(a.priority, b.priority)
  ELSE IF AscNullsLast(a.deadline, b.deadline) # 0 THEN AscNullsLast(a.deadline, b.deadline)
  ELSE b.created_at - a.created_at

\* insert x into the sorted sequence s, after the rows it ties with
RECURSIVE InsertSortedTask(_, _)
InsertSortedTask(x, s) ==
  IF s = <<>> THEN <<x>>
  ELSE IF OrderByTasks(x, Head(s)) < 0 THEN <<x>> \o s
  ELSE <<Head(s)>> \o InsertSortedTask(x, Tail(s))

\* the rows of s in the order of ORDER BY; rows that tie keep the scan's order
RECURSIVE SortTasks(_)
SortTasks(s) ==
  IF s = <<>> THEN <<>>
  ELSE InsertSortedTask(s[Len(s)], SortTasks(SubSeq(s, 1, Len(s) - 1)))

\* a SELECT without its WHERE user_id clause
OwnedByAnyone(userId, row) == TRUE

\* WHERE user_id = userId
OwnedBy(userId, row) == row.user_id = userId

\* SELECT * FROM tasks WHERE user_id = userId ORDER BY ...
getTasks(userId, scan) ==
  LET Owned(row) == OwnedBy(userId, row)
  IN  SortTasks(SelectSeq(scan, Owned))

\* INSERT INTO tasks (...) VALUES (...) RETURNING *: the row it writes
createTask(task, id, time) ==
  [ id |-> id,
    user_id |-> task.user_id,
    title |-> task.title,
    description |-> OrNullStr(task.description),
    priority |-> task.priority,
    status |-> task.status,
    deadline |-> OrNull(task.deadline),
    ai_suggested_priority |-> OrNull(task.ai_suggested_priority),
    ai_suggested_deadline |-> OrNull(task.ai_suggested_deadline),
    context_tags |-> task.context_tags,
    created_at |-> time,
    updated_at |-> time,
    completed_at |-> NULL ]

\* the keys of updates whose value is not undefined (the SET clause)
SetClause(updates) ==
  { k \in {"title", "description", "status"} : updates[k] # UndefinedStr }
  \cup { k \in {"priority", "deadline", "completed_at"} : updates[k] # UNDEFINED }

\* "SET , updated_at = CURRENT_TIMESTAMP" is no statement
UpdateWellFormed(updates) == SetClause(updates) # {}

\* an UPDATE that also resets priority and deadline to the stored suggestion
\* when the updates do not give them
updateTaskPromoting(row, updates, time) ==
  LET set == SetClause(updates)
      New(k) == IF k \in set THEN updates[k] ELSE row[k]
      Promoted(k, suggested) ==
        IF k \notin set /\ row[suggested] # NULL THEN row[suggested] ELSE New(k)
  IN  [ row EXCEPT !.title = New("title"),
                   !.description = New("description"),
                   !.priority = Promoted("priority", "ai_suggested_priority"),
                   !.status = New("status"),
                   !.completed_at = New("completed_at"),
                   !.deadline = Promoted("deadline", "ai_suggested_deadline"),
                   !.updated_at = time ]

\* an UPDATE that writes every column of the updates object, NULL for the
\* absent ones
updateTaskOverwriting(row, updates, time) ==
  LET Str(k) == IF updates[k] = UndefinedStr THEN NullStr ELSE updates[k]
      Num(k) == IF updates[k] = UNDEFINED THEN NULL ELSE updates[k]
  IN  [ row EXCEPT !.title = Str("title"),
                   !.description = Str("description"),
                   !.priority = Num("priority"),
                   !.status = Str("status"),
                   !.completed_at = Num("completed_at"),
                   !.deadline = Num("deadline"),
                   !.updated_at = time ]

\* UPDATE tasks SET <SetClause>, updated_at = CURRENT_TIMESTAMP: the new row
updateTask(row, updates, time) ==
  LET set == SetClause(updates)
      New(k) == IF k \in set THEN updates[k] ELSE row[k]
  IN  [ row EXCEPT !.title = New("title"),
                   !.description = New("description"),
                   !.priority = New("priority"),
                   !.status = New("status"),
                   !.completed_at = New("completed_at"),
                   !.deadline = New("deadline"),
                   !.updated_at = time ]

\* DELETE FROM tasks WHERE id = id
deleteTask(table, id) == { row \in table : row.id # id }

\* entry_date >= CURRENT_DATE - INTERVAL 'days days'
InWindow(entry, days, today) == entry.entry_date >= today - days

\* ORDER BY entry_date DESC, created_at DESC
OrderByContext(a, b) ==
  IF a.entry_date # b.entry_date THEN b.entry_date - a.entry_date
  ELSE b.created_at - a.created_at

RECURSIVE InsertSortedEntry(_, _)
InsertSortedEntry(x, s) ==
  IF s = <<>> THEN <<x>>
  ELSE IF OrderByContext(x, Head(s)) < 0 THEN <<x>> \o s
  ELSE <<Head(s)>> \o InsertSortedEntry(x, Tail(s))

RECURSIVE SortEntries(_)
SortEntries(s) ==
  IF s = <<>> THEN <<>>
  ELSE InsertSortedEntry(s[Len(s)], SortEntries(SubSeq(s, 1, Len(s) - 1)))

\* SELECT * FROM context_entries WHERE user_id = userId AND entry_date >= ...
getContextEntries(userId, days, today, scan) ==
  LET Wanted(entry) == OwnedBy(userId, entry) /\ InWindow(entry, days, today)
  IN  SortEntries(SelectSeq(scan, Wanted))

\* INSERT INTO context_entries (...) VALUES (...) RETURNING *
createContextEntry(entry, id, time) ==
  [ id |-> id,
    user_id |-> entry.user_id,
    content |-> entry.content,
    entry_type |-> entry.entry_type,
    entry_date |-> IF Falsy(entry.entry_date) THEN NotADate ELSE entry.entry_date,
    created_at |-> time ]

ContextRowAccepted(row) ==
  /\ UserIdColumn(row.user_id)
  /\ row.content \notin {NullStr, UndefinedStr}
  /\ row.entry_type \notin {NullStr, UndefinedStr}
  /\ TimestampColumn(row.entry_date)

\* --------------------------------------------------------------- AI gateway
\* z.number().min(1).max(3): any number in [1,3], integer or not
PrioritySchema(p) == p = NonInteger \/ (p >= 1 /\ p <= 3)

\* TaskSuggestionSchema, and the schema of parseNaturalLanguageTask: the
\* strings are unconstrained, deadline is optional
TaskSuggestionSchema(obj) == PrioritySchema(obj.priority)
ParsedTaskSchema(obj) == PrioritySchema(obj.priority)

\* generateObject: the validated object, or a throw when the service failed
\* or its answer does not fit the schema
generateObjectThrows(served, valid) == ~served \/ ~valid

\* suggestTaskPriority returns the object with the schema's keys
suggestTaskPriority(obj) ==
  [ priority |-> obj.priority, deadline |-> obj.deadline,
    contextTags |-> obj.contextTags ]

\* parseNaturalLanguageTask returns the object with the schema's keys
parseNaturalLanguageTask(obj) ==
  [ title |-> obj.title, description |-> obj.description,
    priority |-> obj.priority, deadline |-> obj.deadline,
    contextTags |-> obj.contextTags ]

NoObject == [ title |-> UndefinedStr ]

\* TaskRecommendationsSchema: an array of any length of recommendations,
\* each with a priority in [1,3]
TaskRecommendationsSchema(recommendations) ==
  \A i \in 1..Len(recommendations) : PrioritySchema(recommendations[i].priority)

\* TaskAnalysisSchema: the strings are required
TaskAnalysisSchema(obj) == obj.workloadAssessment # UndefinedStr

\* entries.map(entry => `${entry.entry_type}: ${entry.content}`).join("\n"),
\* as the sequence of its lines; no line of it is empty, so the string is
\* empty exactly when there is no line
ContextSummary(entries) ==
  [ i \in 1..Len(entries) |-> <<entries[i].entry_type, ": ", entries[i].content>> ]

\* tasks.filter(task => task.status !== "completed").map(...).join("\n")
ActiveTask(task) == task.status # "completed"
TaskList(taskSeq) ==
  LET active == SelectSeq(taskSeq, ActiveTask)
  IN  [ i \in 1..Len(active) |->
          <<active[i].title, active[i].priority, OrNull(active[i].deadline)>> ]

\* !text, for a text given by its lines
EmptyText(lines) == Len(lines) = 0

\* the analysis that is null
NoAnalysis == [ workloadAssessment |-> NullStr ]

\* an analyzeTasks that lists the completed tasks too
analyzeTasksCountingCompleted(taskSeq, entries, served, obj) ==
  LET all == [ i \in 1..Len(taskSeq) |-> <<taskSeq[i].title>> ]
  IN  IF EmptyText(all) /\ EmptyText(ContextSummary(entries))
      THEN [ calls |-> 0, thrown |-> FALSE, value |-> NoAnalysis ]
      ELSE IF generateObjectThrows(served, TaskAnalysisSchema(obj))
      THEN [ calls |-> 1, thrown |-> TRUE, value |-> NoAnalysis ]
      ELSE [ calls |-> 1, thrown |-> FALSE, value |-> obj ]

\* AIService.analyzeTasks: the number of generateObject calls it made, whether
\* it threw, and the value it returned
analyzeTasks(taskSeq, entries, served, obj) ==
  IF EmptyText(TaskList(taskSeq)) /\ EmptyText(ContextSummary(entries))
  THEN [ calls |-> 0, thrown |-> FALSE, value |-> NoAnalysis ]
  ELSE IF generateObjectThrows(served, TaskAnalysisSchema(obj))
  THEN [ calls |-> 1, thrown |-> TRUE, value |-> NoAnalysis ]
  ELSE [ calls |-> 1, thrown |-> FALSE, value |-> obj ]

\* a recommendTasks that asks the completion service whatever the context
recommendTasksAlwaysAsks(entries, existingTasks, served, recommendations) ==
  IF generateObjectThrows(served, TaskRecommendationsSchema(recommendations))
  THEN [ calls |-> 1, thrown |-> TRUE, value |-> <<>> ]
  ELSE [ calls |-> 1, thrown |-> FALSE, value |-> recommendations ]

\* AIService.recommendTasks: existingTasks only reaches the prompt
recommendTasks(entries, existingTasks, served, recommendations) ==
  IF EmptyText(ContextSummary(entries))
  THEN [ calls |-> 0, thrown |-> FALSE, value |-> <<>> ]
  ELSE IF generateObjectThrows(served, TaskRecommendationsSchema(recommendations))
  THEN [ calls |-> 1, thrown |-> TRUE, value |-> <<>> ]
  ELSE [ calls |-> 1, thrown |-> FALSE, value |-> recommendations ]

\* ------------------------------------------------------ POST /api/tasks
\* route.ts 31-41: the record the handler starts from
InitialTaskData(body) ==
  [ user_id |-> body.userId,
    title |-> body.title,
    description |-> IF FalsyStr(body.description) THEN "" ELSE body.description,
    priority |-> DefaultPriority,
    status |-> "pending",
    deadline |-> UNDEFINED,
    ai_suggested_priority |-> UNDEFINED,
    ai_suggested_deadline |-> UNDEFINED,
    context_tags |-> <<>> ]

\* route.ts 49-56
ApplyParsed(taskData, parsed) ==
  [ taskData EXCEPT !.title = parsed.title,
                    !.description = parsed.description,
                    !.priority = parsed.priority,
                    !.deadline = parsed.deadline,
                    !.context_tags = parsed.contextTags ]

\* ApplySuggestion that keeps the suggestion advisory: priority and deadline
\* are not promoted
ApplySuggestionAdvisoryOnly(taskData, suggestion) ==
  [ taskData EXCEPT !.ai_suggested_priority = suggestion.priority,
                    !.ai_suggested_deadline = suggestion.deadline,
                    !.context_tags = suggestion.contextTags ]

\* route.ts 59-66
ApplySuggestion(taskData, suggestion) ==
  [ taskData EXCEPT !.ai_suggested_priority = suggestion.priority,
                    !.ai_suggested_deadline = suggestion.deadline,
                    !.priority = suggestion.priority,
                    !.context_tags = suggestion.contextTags,
                    !.deadline = IF Falsy(suggestion.deadline) THEN @
                                 ELSE suggestion.deadline ]

\* the error the handler's catch block received, "none" when nothing threw
Throw(r, error) == [ r EXCEPT !.thrown = error ]

PostResponse(status, r, task) ==
  [ op |-> "POST /tasks", status |-> status, thrown |-> r.thrown, body |-> r.body,
    calls |-> r.calls, ai |-> r.ai, contextEntries |-> r.contextEntries,
    task |-> task ]

\* route.ts 24-43: parse the body, validate, build taskData
PostTasks(body) ==
  /\ req.pc = "idle"
  /\ LET r == [ pc |-> IF body.useAI \/ body.naturalLanguage
                       THEN "getContextEntries" ELSE "createTask",
                body |-> body, taskData |-> InitialTaskData(body),
                calls |-> <<>>, ai |-> NoObject, contextEntries |-> <<>>,
                thrown |-> "none" ]
     IN  IF Falsy(body.userId) \/ FalsyStr(body.title)
         THEN /\ resp' = PostResponse(400, r, NoTask)
              /\ UNCHANGED req
         ELSE /\ req' = r
              /\ resp' = NoResponse
  /\ UNCHANGED <<tasks, contextEntries, nextTaskId, nextContextId, now, uiVars>>

\* route.ts 44: await Database.getContextEntries(userId)
PostGetContext(storeOk, scan) ==
  /\ req.pc = "getContextEntries"
  /\ LET r == [ req EXCEPT !.calls = Append(@, "getContextEntries") ]
     IN  IF storeOk
         THEN /\ req' = [ r EXCEPT !.pc = "ai",
                            !.contextEntries =
                               getContextEntries(req.body.userId, DefaultDays, now, scan) ]
              /\ resp' = NoResponse
         ELSE /\ req' = Idle
              /\ resp' = PostResponse(500, Throw(r, "store"), NoTask)
  /\ UNCHANGED <<tasks, contextEntries, nextTaskId, nextContextId, now, uiVars>>

\* PostAI that catches the gateway's error and goes on to create the task
\* from the caller's fields
PostAISilentFallback(served, obj) ==
  /\ req.pc = "ai"
  /\ LET nl == req.body.naturalLanguage
         r == [ req EXCEPT !.calls = Append(@, IF nl THEN "parseNaturalLanguageTask"
                                                ELSE "suggestTaskPriority") ]
         valid == IF nl THEN ParsedTaskSchema(obj) ELSE TaskSuggestionSchema(obj)
     IN  req' = IF generateObjectThrows(served, valid)
                THEN [ Throw(r, "ai") EXCEPT !.pc = "createTask" ]
                ELSE [ r EXCEPT !.pc = "createTask",
                         !.ai = obj,
                         !.taskData =
                            IF nl THEN ApplyParsed(@, parseNaturalLanguageTask(obj))
                            ELSE ApplySuggestion(@, suggestTaskPriority(obj)) ]
  /\ resp' = NoResponse
  /\ UNCHANGED <<tasks, contextEntries, nextTaskId, nextContextId, now, uiVars>>

\* route.ts 46-67: the one call to the AI gateway
PostAI(served, obj) ==
  /\ req.pc = "ai"
  /\ LET nl == req.body.naturalLanguage
         r == [ req EXCEPT !.calls = Append(@, IF nl THEN "parseNaturalLanguageTask"
                                                ELSE "suggestTaskPriority") ]
         valid == IF nl THEN ParsedTaskSchema(obj) ELSE TaskSuggestionSchema(obj)
     IN  IF generateObjectThrows(served, valid)
         THEN /\ req' = Idle
              /\ resp' = PostResponse(500, Throw(r, "ai"), NoTask)
         ELSE /\ req' = [ r EXCEPT !.pc = "createTask",
                            !.ai = obj,
                            !.taskData =
                               IF nl THEN ApplyParsed(@, parseNaturalLanguageTask(obj))
                               ELSE ApplySuggestion(@, suggestTaskPriority(obj)) ]
              /\ resp' = NoResponse
  /\ UNCHANGED <<tasks, contextEntries, nextTaskId, nextContextId, now, uiVars>>

\* PostCreateTask that answers with the row whether or not the insert succeeded
PostCreateTaskUnchecked(storeOk) ==
  /\ req.pc = "createTask"
  /\ LET r == [ req EXCEPT !.calls = Append(@, "createTask") ]
         row == createTask(req.taskData, nextTaskId, now)
     IN  /\ IF storeOk /\ TaskRowAccepted(row)
            THEN /\ tasks' = tasks \cup {row}
                 /\ nextTaskId' = nextTaskId + 1
            ELSE UNCHANGED <<tasks, nextTaskId>>
         /\ resp' = PostResponse(200, r, row)
  /\ req' = Idle
  /\ UNCHANGED <<contextEntries, nextContextId, now, uiVars>>

\* route.ts 70-71: await Database.createTask(taskData); respond with the row
PostCreateTask(storeOk) ==
  /\ req.pc = "createTask"
  /\ LET r == [ req EXCEPT !.calls = Append(@, "createTask") ]
         row == createTask(req.taskData, nextTaskId, now)
     IN  IF storeOk /\ TaskRowAccepted(row)
         THEN /\ tasks' = tasks \cup {row}
              /\ nextTaskId' = nextTaskId + 1
              /\ resp' = PostResponse(200, r, row)
         ELSE /\ resp' = PostResponse(500, Throw(r, "store"), NoTask)
              /\ UNCHANGED <<tasks, nextTaskId>>
  /\ req' = Idle
  /\ UNCHANGED <<contextEntries, nextContextId, now, uiVars>>

\* ------------------------------------------------------ GET /api/tasks
\* a GET that answers a store error with an empty list
GetTasksSwallowing(userId, storeOk, scan) ==
  /\ resp' = IF Falsy(userId)
             THEN [ op |-> "GET /tasks", status |-> 400, thrown |-> "none",
                    userId |-> userId, tasks |-> <<>> ]
             ELSE IF storeOk
             THEN [ op |-> "GET /tasks", status |-> 200, thrown |-> "none",
                    userId |-> userId, tasks |-> getTasks(userId, scan) ]
             ELSE [ op |-> "GET /tasks", status |-> 200, thrown |-> "store",
                    userId |-> userId, tasks |-> <<>> ]
  /\ UNCHANGED <<tasks, contextEntries, nextTaskId, nextContextId, now, req, uiVars>>

\* route.ts 5-20
GetTasks(userId, storeOk, scan) ==
  /\ resp' = IF Falsy(userId)
             THEN [ op |-> "GET /tasks", status |-> 400, thrown |-> "none",
                    userId |-> userId, tasks |-> <<>> ]
             ELSE IF storeOk
             THEN [ op |-> "GET /tasks", status |-> 200, thrown |-> "none",
                    userId |-> userId, tasks |-> getTasks(userId, scan) ]
             ELSE [ op |-> "GET /tasks", status |-> 500, thrown |-> "store",
                    userId |-> userId, tasks |-> <<>> ]
  /\ UNCHANGED <<tasks, contextEntries, nextTaskId, nextContextId, now, req, uiVars>>

\* ------------------------------------------------- PUT /api/tasks/{id}
\* an updates object that never carries completed_at
PutUpdatesWithoutStamp(body, time) ==
  [ title |-> body.title,
    description |-> body.description,
    priority |-> body.priority,
    status |-> body.status,
    completed_at |-> UNDEFINED,
    deadline |-> body.deadline ]

\* route.ts 86-96: the updates object built from the body
PutUpdates(body, time) ==
  [ title |-> body.title,
    description |-> body.description,
    priority |-> body.priority,
    status |-> body.status,
    completed_at |-> IF body.status = "completed" THEN time ELSE UNDEFINED,
    deadline |-> body.deadline ]

\* a PUT whose UPDATE leaves updated_at as it was
PutTaskKeepingStamp(taskId, body, storeOk) ==
  LET updates == PutUpdates(body, now)
      hit == { row \in tasks : row.id = taskId }
      new == { [ updateTask(row, updates, now) EXCEPT !.updated_at = row.updated_at ] :
                 row \in hit }
      ok == /\ storeOk
            /\ UpdateWellFormed(updates)
            /\ \A row \in new : TaskRowAccepted(row)
  IN  /\ tasks' = IF ok THEN (tasks \ hit) \cup new ELSE tasks
      /\ resp' = [ op |-> "PUT /tasks", status |-> IF ok THEN 200 ELSE 500,
                   thrown |-> IF ok THEN "none" ELSE "store",
                   id |-> taskId, body |-> body,
                   task |-> IF ok /\ new # {} THEN CHOOSE row \in new : TRUE
                            ELSE NoTask ]
      /\ UNCHANGED <<contextEntries, nextTaskId, nextContextId, now, req, uiVars>>

\* route.ts 81-104
PutTask(taskId, body, storeOk) ==
  LET updates == PutUpdates(body, now)
      hit == { row \in tasks : row.id = taskId }
      new == { updateTask(row, updates, now) : row \in hit }
      ok == /\ storeOk
            /\ UpdateWellFormed(updates)
            /\ \A row \in new : TaskRowAccepted(row)
  IN  /\ tasks' = IF ok THEN (tasks \ hit) \cup new ELSE tasks
      /\ resp' = [ op |-> "PUT /tasks", status |-> IF ok THEN 200 ELSE 500,
                   thrown |-> IF ok THEN "none" ELSE "store",
                   id |-> taskId, body |-> body,
                   task |-> IF ok /\ new # {} THEN CHOOSE row \in new : TRUE
                            ELSE NoTask ]
      /\ UNCHANGED <<contextEntries, nextTaskId, nextContextId, now, req, uiVars>>

\* ---------------------------------------------- DELETE /api/tasks/{id}
\* a DELETE that raises NotFound when no row has the id
DeleteTaskNotFound(taskId, storeOk) ==
  LET found == \E row \in tasks : row.id = taskId
  IN  /\ tasks' = IF storeOk THEN deleteTask(tasks, taskId) ELSE tasks
      /\ resp' = [ op |-> "DELETE /tasks",
                   status |-> IF ~storeOk THEN 500 ELSE IF found THEN 200 ELSE 404,
                   thrown |-> IF ~storeOk THEN "store" ELSE IF found THEN "none"
                              ELSE "NotFound",
                   id |-> taskId ]
      /\ UNCHANGED <<contextEntries, nextTaskId, nextContextId, now, req, uiVars>>

\* route.ts 106-115
DeleteTask(taskId, storeOk) ==
  /\ tasks' = IF storeOk THEN deleteTask(tasks, taskId) ELSE tasks
  /\ resp' = [ op |-> "DELETE /tasks", status |-> IF storeOk THEN 200 ELSE 500,
               thrown |-> IF storeOk THEN "none" ELSE "store", id |-> taskId ]
  /\ UNCHANGED <<contextEntries, nextTaskId, nextContextId, now, req, uiVars>>

\* ---------------------------------------------------- GET /api/context
GetContext(userId, days, storeOk, scan) ==
  /\ resp' = IF Falsy(userId)
             THEN [ op |-> "GET /context", status |-> 400, thrown |-> "none",
                    userId |-> userId, days |-> days, contextEntries |-> <<>> ]
             ELSE IF storeOk
             THEN [ op |-> "GET /context", status |-> 200, thrown |-> "none",
                    userId |-> userId, days |-> days,
                    contextEntries |->
                       getContextEntries(userId, IF Falsy(days) THEN DefaultDays ELSE days,
                                         now, scan) ]
             ELSE [ op |-> "GET /context", status |-> 500, thrown |-> "store",
                    userId |-> userId, days |-> days, contextEntries |-> <<>> ]
  /\ UNCHANGED <<tasks, contextEntries, nextTaskId, nextContextId, now, req, uiVars>>

\* --------------------------------------------------- POST /api/context
NoEntry == [ id |-> UNDEFINED ]

\* a POST /context that keeps one entry per user and day: the new entry
\* takes the place of the stored one
PostContextReplacing(body, storeOk) ==
  /\ IF Falsy(body.userId) \/ FalsyStr(body.content) \/ FalsyStr(body.entryType)
     THEN /\ resp' = [ op |-> "POST /context", status |-> 400, thrown |-> "none",
                       body |-> body, contextEntry |-> NoEntry ]
          /\ UNCHANGED <<contextEntries, nextContextId>>
     ELSE LET row == createContextEntry(
                       [ user_id |-> body.userId, content |-> body.content,
                         entry_type |-> body.entryType,
                         entry_date |-> IF Falsy(body.entryDate) THEN now
                                        ELSE body.entryDate ],
                       nextContextId, now)
              same == { e \in contextEntries :
                          e.user_id = row.user_id /\ e.entry_date = row.entry_date }
          IN  IF storeOk /\ ContextRowAccepted(row)
              THEN /\ contextEntries' = (contextEntries \ same) \cup {row}
                   /\ nextContextId' = nextContextId + 1
                   /\ resp' = [ op |-> "POST /context", status |-> 200, thrown |-> "none",
                                body |-> body, contextEntry |-> row ]
              ELSE /\ resp' = [ op |-> "POST /context", status |-> 500, thrown |-> "store",
                                body |-> body, contextEntry |-> NoEntry ]
                   /\ UNCHANGED <<contextEntries, nextContextId>>
  /\ UNCHANGED <<tasks, nextTaskId, now, req, uiVars>>

\* context/route.ts 22-43
PostContext(body, storeOk) ==
  /\ IF Falsy(body.userId) \/ FalsyStr(body.content) \/ FalsyStr(body.entryType)
     THEN /\ resp' = [ op |-> "POST /context", status |-> 400, thrown |-> "none",
                       body |-> body, contextEntry |-> NoEntry ]
          /\ UNCHANGED <<contextEntries, nextContextId>>
     ELSE LET row == createContextEntry(
                       [ user_id |-> body.userId, content |-> body.content,
                         entry_type |-> body.entryType,
                         entry_date |-> IF Falsy(body.entryDate) THEN now
                                        ELSE body.entryDate ],
                       nextContextId, now)
          IN  IF storeOk /\ ContextRowAccepted(row)
              THEN /\ contextEntries' = contextEntries \cup {row}
                   /\ nextContextId' = nextContextId + 1
                   /\ resp' = [ op |-> "POST /context", status |-> 200, thrown |-> "none",
                                body |-> body, contextEntry |-> row ]
              ELSE /\ resp' = [ op |-> "POST /context", status |-> 500, thrown |-> "store",
                                body |-> body, contextEntry |-> NoEntry ]
                   /\ UNCHANGED <<contextEntries, nextContextId>>
  /\ UNCHANGED <<tasks, nextTaskId, now, req, uiVars>>

\* ------------------------------------------- POST /api/ai/recommendations
\* the calls of a handler that read both tables and then asked the gateway
InsightCalls(result) ==
  <<"getTasks", "getContextEntries">> \o
     (IF result.calls = 1 THEN <<"generateObject">> ELSE <<>>)

\* !userId || Number.isNaN(Number(userId))
NoValidUserId(userId) == Falsy(userId) \/ userId = NotANumber

PostRecommendations(userId, storeOk, scanTasks, scanEntries, served, recommendations) ==
  /\ resp' =
       IF NoValidUserId(userId)
       THEN [ op |-> "POST /ai/recommendations", status |-> 400, thrown |-> "none",
              userId |-> userId, calls |-> <<>>, tasks |-> <<>>,
              contextEntries |-> <<>>, recommendations |-> <<>> ]
       ELSE IF ~storeOk
       THEN [ op |-> "POST /ai/recommendations", status |-> 500, thrown |-> "store",
              userId |-> userId, calls |-> <<"getTasks", "getContextEntries">>,
              tasks |-> <<>>, contextEntries |-> <<>>, recommendations |-> <<>> ]
       ELSE LET existing == getTasks(userId, scanTasks)
                entries == getContextEntries(userId, DefaultDays, now, scanEntries)
                result == recommendTasks(entries, existing, served, recommendations)
            IN  [ op |-> "POST /ai/recommendations",
                  status |-> IF result.thrown THEN 500 ELSE 200,
                  thrown |-> IF result.thrown THEN "ai" ELSE "none",
                  userId |-> userId, calls |-> InsightCalls(result),
                  tasks |-> existing, contextEntries |-> entries,
                  recommendations |-> result.value ]
  /\ UNCHANGED <<tasks, contextEntries, nextTaskId, nextContextId, now, req, uiVars>>

\* -------------------------------------------------- POST /api/ai/analyze
\* a PostAnalyze that asks the completion service again after a failure
PostAnalyzeRetrying(userId, storeOk, scanTasks, scanEntries, served, obj) ==
  /\ resp' =
       IF NoValidUserId(userId)
       THEN [ op |-> "POST /ai/analyze", status |-> 400, thrown |-> "none",
              userId |-> userId, calls |-> <<>>, tasks |-> <<>>,
              contextEntries |-> <<>>, analysis |-> NoAnalysis ]
       ELSE IF ~storeOk
       THEN [ op |-> "POST /ai/analyze", status |-> 500, thrown |-> "store",
              userId |-> userId, calls |-> <<"getTasks", "getContextEntries">>,
              tasks |-> <<>>, contextEntries |-> <<>>, analysis |-> NoAnalysis ]
       ELSE LET current == getTasks(userId, scanTasks)
                entries == getContextEntries(userId, DefaultDays, now, scanEntries)
                result == analyzeTasks(current, entries, served, obj)
            IN  [ op |-> "POST /ai/analyze",
                  status |-> IF result.thrown THEN 500 ELSE 200,
                  thrown |-> IF result.thrown THEN "ai" ELSE "none",
                  userId |-> userId,
                  calls |-> InsightCalls(result) \o
                            (IF result.thrown THEN <<"generateObject">> ELSE <<>>),
                  tasks |-> current, contextEntries |-> entries,
                  analysis |-> result.value ]
  /\ UNCHANGED <<tasks, contextEntries, nextTaskId, nextContextId, now, req, uiVars>>

\* analyze/route.ts 5-22
PostAnalyze(userId, storeOk, scanTasks, scanEntries, served, obj) ==
  /\ resp' =
       IF NoValidUserId(userId)
       THEN [ op |-> "POST /ai/analyze", status |-> 400, thrown |-> "none",
              userId |-> userId, calls |-> <<>>, tasks |-> <<>>,
              contextEntries |-> <<>>, analysis |-> NoAnalysis ]
       ELSE IF ~storeOk
       THEN [ op |-> "POST /ai/analyze", status |-> 500, thrown |-> "store",
              userId |-> userId, calls |-> <<"getTasks", "getContextEntries">>,
              tasks |-> <<>>, contextEntries |-> <<>>, analysis |-> NoAnalysis ]
       ELSE LET current == getTasks(userId, scanTasks)
                entries == getContextEntries(userId, DefaultDays, now, scanEntries)
                result == analyzeTasks(current, entries, served, obj)
            IN  [ op |-> "POST /ai/analyze",
                  status |-> IF result.thrown THEN 500 ELSE 200,
                  thrown |-> IF result.thrown THEN "ai" ELSE "none",
                  userId |-> userId, calls |-> InsightCalls(result),
                  tasks |-> current, contextEntries |-> entries,
                  analysis |-> result.value ]
  /\ UNCHANGED <<tasks, contextEntries, nextTaskId, nextContextId, now, req, uiVars>>

\* ------------------------------------ a call of Database.createContextEntry
\* the row is written unless the store did not execute the statement
\* (thrown "store") or the table rejected the row (thrown "row")
CreateContextEntry(entry, storeOk) ==
  LET row == createContextEntry(entry, nextContextId, now)
  IN  /\ IF storeOk /\ ContextRowAccepted(row)
         THEN /\ contextEntries' = contextEntries \cup {row}
              /\ nextContextId' = nextContextId + 1
              /\ resp' = [ op |-> "createContextEntry", thrown |-> "none",
                           entry |-> entry, contextEntry |-> row ]
         ELSE /\ resp' = [ op |-> "createContextEntry",
                           thrown |-> IF storeOk THEN "row" ELSE "store",
                           entry |-> entry, contextEntry |-> NoEntry ]
              /\ UNCHANGED <<contextEntries, nextContextId>>
      /\ UNCHANGED <<tasks, nextTaskId, now, req, uiVars>>

\* the clock of SpecEntries, in days
NextDay ==
  /\ now < MaxDay
  /\ now' = now + 1
  /\ resp' = NoResponse
  /\ UNCHANGED <<tasks, contextEntries, nextTaskId, nextContextId, req, uiVars>>

\* ----------------------------------------------- the 400 error bodies
\* the fields that the error message of a handler's 400 response names:
\* "User ID required" (tasks/route.ts 11, context/route.ts 11), "User ID and
\* title required" (tasks/route.ts 28), "Missing required fields"
\* (context/route.ts 28), "Valid userId required" (analyze/route.ts 11,
\* context/route.ts 55)
ErrorNames(op) ==
  CASE op = "GET /tasks" -> {"userId"}
    [] op = "POST /tasks" -> {"userId", "title"}
    [] op = "GET /context" -> {"userId"}
    [] op = "POST /context" -> {}
    [] op = "POST /ai/analyze" -> {"userId"}
    [] op = "POST /ai/recommendations" -> {"userId"}
    [] OTHER -> {}

\* ------------------------------------------------------ the AIInsights panel
\* String.prototype.trim() on the inputs the forms are given
Trim(text) == IF text = " " THEN "" ELSE text

\* prev.filter((_, i) => i !== index), index counted from 0
FilterOutIndex(prev, index) ==
  IF index + 1 \in 1..Len(prev)
  THEN SubSeq(prev, 1, index) \o SubSeq(prev, index + 2, Len(prev))
  ELSE prev

Settled(fetch, outcome, notified) ==
  [ kind |-> fetch.kind, outcome |-> outcome, recommendation |-> fetch.recommendation,
    index |-> fetch.index, notified |-> notified ]

\* ai-insights.tsx 37-41 and 283: Refresh Analysis, up to the await
loadAnalysis ==
  /\ ~insights.isLoadingAnalysis
  /\ insights' = [ insights EXCEPT !.isLoadingAnalysis = TRUE, !.error = FALSE ]
  /\ fetches' = fetches \cup { Fetch("loadAnalysis", NoRecommendation, NULL) }
  /\ handled' = NoEvent
  /\ UNCHANGED <<taskForm, contextManager, serverVars>>

\* ai-insights.tsx 47-58: from the await on
loadAnalysisSettled(outcome) ==
  LET fetch == Fetch("loadAnalysis", NoRecommendation, NULL)
  IN  /\ fetch \in fetches
      /\ insights' = [ insights EXCEPT
                         !.analysis = IF outcome = "ok" THEN TRUE ELSE @,
                         !.error = IF outcome = "ok" THEN @ ELSE TRUE,
                         !.isLoadingAnalysis = FALSE ]
      /\ fetches' = fetches \ {fetch}
      /\ handled' = Settled(fetch, outcome, FALSE)
      /\ UNCHANGED <<taskForm, contextManager, serverVars>>

\* ai-insights.tsx 61-64 and 305: Refresh Recommendations, up to the await
loadRecommendations ==
  /\ ~insights.isLoadingRecommendations
  /\ insights' = [ insights EXCEPT !.isLoadingRecommendations = TRUE ]
  /\ fetches' = fetches \cup { Fetch("loadRecommendations", NoRecommendation, NULL) }
  /\ handled' = NoEvent
  /\ UNCHANGED <<taskForm, contextManager, serverVars>>

\* a refresh whose finally block leaves the flag set after a rejection
loadRecommendationsSettledStuck(outcome, recommendations) ==
  LET fetch == Fetch("loadRecommendations", NoRecommendation, NULL)
  IN  /\ fetch \in fetches
      /\ insights' = [ insights EXCEPT
                         !.recommendations = IF outcome = "ok" THEN recommendations
                                             ELSE @,
                         !.isLoadingRecommendations = (outcome = "throws") ]
      /\ fetches' = fetches \ {fetch}
      /\ handled' = Settled(fetch, outcome, FALSE)
      /\ UNCHANGED <<taskForm, contextManager, serverVars>>

\* ai-insights.tsx 70-80: from the await on
loadRecommendationsSettled(outcome, recommendations) ==
  LET fetch == Fetch("loadRecommendations", NoRecommendation, NULL)
  IN  /\ fetch \in fetches
      /\ insights' = [ insights EXCEPT
                         !.recommendations = IF outcome = "ok" THEN recommendations
                                             ELSE @,
                         !.isLoadingRecommendations = FALSE ]
      /\ fetches' = fetches \ {fetch}
      /\ handled' = Settled(fetch, outcome, FALSE)
      /\ UNCHANGED <<taskForm, contextManager, serverVars>>

\* ai-insights.tsx 83-85, 196-208 and 236-249: Add Task on the row at index,
\* up to the await. The rows are drawn when no refresh is loading, and the
\* button of a row is disabled while isCreatingTask is the row's index.
createTaskFromRecommendation(index) ==
  /\ ~insights.isLoadingRecommendations
  /\ index + 1 \in 1..Len(insights.recommendations)
  /\ insights.isCreatingTask # index
  /\ insights' = [ insights EXCEPT !.isCreatingTask = index ]
  /\ fetches' = fetches \cup
       { Fetch("createTaskFromRecommendation", insights.recommendations[index + 1],
               index) }
  /\ handled' = NoEvent
  /\ UNCHANGED <<taskForm, contextManager, serverVars>>

\* ai-insights.tsx 99-107: from the await on
createTaskFromRecommendationSettled(fetch, outcome) ==
  /\ fetch \in fetches
  /\ fetch.kind = "createTaskFromRecommendation"
  /\ insights' = [ insights EXCEPT
                     !.recommendations = IF outcome = "ok"
                                         THEN FilterOutIndex(@, fetch.index) ELSE @,
                     !.isCreatingTask = NULL ]
  /\ fetches' = fetches \ {fetch}
  /\ handled' = Settled(fetch, outcome, outcome = "ok")
  /\ UNCHANGED <<taskForm, contextManager, serverVars>>

\* ------------------------------------------------------------ the TaskForm
\* task-form.tsx 93, 104, 111: the inputs
TaskFormChange(inputs) ==
  /\ taskForm' = [ taskForm EXCEPT !.title = inputs.title,
                                   !.description = inputs.description,
                                   !.priority = inputs.priority ]
  /\ handled' = NoEvent
  /\ UNCHANGED <<insights, contextManager, fetches, serverVars>>

\* task-form.tsx 29-35 and 132: submit, up to the await
TaskFormSubmit ==
  /\ ~taskForm.isLoading
  /\ IF Trim(taskForm.title) = ""
     THEN UNCHANGED <<taskForm, fetches>>
     ELSE /\ taskForm' = [ taskForm EXCEPT !.isLoading = TRUE ]
          /\ fetches' = fetches \cup { Fetch("TaskForm", NoRecommendation, NULL) }
  /\ handled' = NoEvent
  /\ UNCHANGED <<insights, contextManager, serverVars>>

\* task-form.tsx 48-58: from the await on
TaskFormSettled(outcome) ==
  LET fetch == Fetch("TaskForm", NoRecommendation, NULL)
  IN  /\ fetch \in fetches
      /\ taskForm' = IF outcome = "ok"
                     THEN [ title |-> "", description |-> "", priority |-> "3",
                            isLoading |-> FALSE ]
                     ELSE [ taskForm EXCEPT !.isLoading = FALSE ]
      /\ fetches' = fetches \ {fetch}
      /\ handled' = Settled(fetch, outcome, outcome = "ok")
      /\ UNCHANGED <<insights, contextManager, serverVars>>

\* ------------------------------------------------------ the ContextManager
\* ContextManager 131: the textarea
ContextManagerChange(content) ==
  /\ contextManager' = [ contextManager EXCEPT !.content = content ]
  /\ handled' = NoEvent
  /\ UNCHANGED <<insights, taskForm, fetches, serverVars>>

\* ContextManager 25-29 and 137: submit, up to the await
ContextManagerSubmit ==
  /\ ~contextManager.isLoading
  /\ IF Trim(contextManager.content) = ""
     THEN UNCHANGED <<contextManager, fetches>>
     ELSE /\ contextManager' = [ contextManager EXCEPT !.isLoading = TRUE ]
          /\ fetches' = fetches \cup
               { Fetch("ContextManager", NoRecommendation, NULL) }
  /\ handled' = NoEvent
  /\ UNCHANGED <<insights, taskForm, serverVars>>

\* ContextManager 41-49: from the await on
ContextManagerSettled(outcome) ==
  LET fetch == Fetch("ContextManager", NoRecommendation, NULL)
  IN  /\ fetch \in fetches
      /\ contextManager' = IF outcome = "ok"
                           THEN [ content |-> "", isLoading |-> FALSE ]
                           ELSE [ contextManager EXCEPT !.isLoading = FALSE ]
      /\ fetches' = fetches \ {fetch}
      /\ handled' = Settled(fetch, outcome, outcome = "ok")
      /\ UNCHANGED <<insights, taskForm, serverVars>>

\* ------------------------------------------------------------- the clock
Tick ==
  /\ now < MaxTime
  /\ now' = now + 1
  /\ resp' = NoResponse
  /\ UNCHANGED <<tasks, contextEntries, nextTaskId, nextContextId, req, uiVars>>

\* a SERIAL sequence that has handed out at most max ids may hand out one
MayInsert(nextId, max) == nextId <= max

\* ---------------------------------------- Spec: the life of a task
\* POST /tasks without AI, PUT /tasks/{id} with a status, DELETE /tasks/{id},
\* the clock
PostBodies ==
  [ userId : {UNDEFINED, 1}, title : {UndefinedStr, "raw"}, description : {UndefinedStr},
    priority : {UNDEFINED}, useAI : {FALSE}, naturalLanguage : {FALSE} ]
StatusBodies ==
  [ title : {UndefinedStr}, description : {UndefinedStr}, priority : {UNDEFINED},
    status : {UndefinedStr, "pending", "in_progress", "completed", "archived"},
    deadline : {UNDEFINED} ]

Next ==
  \/ \E body \in PostBodies : MayInsert(nextTaskId, MaxTaskId) /\ PostTasks(body)
  \/ \E storeOk \in BOOLEAN : PostCreateTask(storeOk)
  \/ \E taskId \in 1..MaxTaskId, body \in StatusBodies, storeOk \in BOOLEAN :
        PutTask(taskId, body, storeOk)
  \/ \E taskId \in 1..MaxTaskId, storeOk \in BOOLEAN : DeleteTask(taskId, storeOk)
  \/ Tick

Spec == Init /\ [][Next]_vars

\* ------------------------------------- SpecFields: updates of the fields
\* POST /tasks without AI, PUT /tasks/{id} with any of title, priority and
\* deadline, DELETE /tasks/{id}
FieldBodies ==
  [ title : {UndefinedStr, "edited"}, description : {UndefinedStr},
    priority : {UNDEFINED, 4}, status : {UndefinedStr},
    deadline : {UNDEFINED, 2} ]

NextFields ==
  \/ \E body \in PostBodies : MayInsert(nextTaskId, MaxEdited) /\ PostTasks(body)
  \/ \E storeOk \in BOOLEAN : PostCreateTask(storeOk)
  \/ \E taskId \in 1..MaxEdited, body \in FieldBodies, storeOk \in BOOLEAN :
        PutTask(taskId, body, storeOk)
  \/ \E taskId \in 1..MaxEdited, storeOk \in BOOLEAN : DeleteTask(taskId, storeOk)

SpecFields == Init /\ [][NextFields]_vars

\* ------------------------------- SpecCreate: the create-task workflow
\* every branch of POST /tasks, with the answers of the completion service
\* (before schema validation) that the branches tell apart
CreateBodies ==
  [ userId : {UNDEFINED, 1}, title : {UndefinedStr, "raw"},
    description : {UndefinedStr, "d"}, priority : {UNDEFINED, 1},
    useAI : BOOLEAN, naturalLanguage : BOOLEAN ]
AIObjects ==
  [ title : {"parsed"}, description : {"", "pd"}, priority : {1, 5, NonInteger},
    deadline : {UNDEFINED, EmptyDate, 1, NotADate}, contextTags : {<<"work">>} ]
ContextBodies ==
  [ userId : {UNDEFINED, 1}, content : {UndefinedStr, "c"}, entryType : {"note"},
    entryDate : {UNDEFINED, 1} ]

NextCreate ==
  \/ \E body \in CreateBodies : MayInsert(nextTaskId, MaxCreated) /\ PostTasks(body)
  \/ \E storeOk \in BOOLEAN, scan \in Scans(contextEntries) : PostGetContext(storeOk, scan)
  \/ \E served \in BOOLEAN, obj \in AIObjects : PostAI(served, obj)
  \/ \E storeOk \in BOOLEAN : PostCreateTask(storeOk)
  \/ \E body \in ContextBodies, storeOk \in BOOLEAN :
        MayInsert(nextContextId, MaxContextId) /\ PostContext(body, storeOk)

SpecCreate == Init /\ [][NextCreate]_vars

\* ------------------------------------------ SpecSort: the order of getTasks
\* GET /tasks over every tasks table of at most MaxRows rows of one user
\* whose sort keys are drawn from SortKeys (tables that POST, PUT and the
\* clock produce)
SortKeys ==
  [ priority : {1, 2}, status : {"pending", "in_progress", "completed"},
    deadline : {NULL, 1, 2}, created_at : {1, 2} ]

SortRow(id, key) ==
  [ NoTask EXCEPT !.id = id, !.user_id = 1, !.title = "raw", !.description = NullStr,
                  !.priority = key.priority, !.status = key.status,
                  !.deadline = key.deadline, !.ai_suggested_priority = NULL,
                  !.ai_suggested_deadline = NULL, !.created_at = key.created_at,
                  !.updated_at = 2,
                  !.completed_at = IF key.status = "completed" THEN 2 ELSE NULL ]

InitSort ==
  /\ \E n \in 0..MaxRows : \E keys \in [1..n -> SortKeys] :
        /\ tasks = { SortRow(id, keys[id]) : id \in 1..n }
        /\ nextTaskId = n + 1
  /\ contextEntries = {}
  /\ nextContextId = 1
  /\ now = 2
  /\ req = Idle
  /\ resp = NoResponse
  /\ InitUI

NextSort ==
  \E userId \in {UNDEFINED, 1}, storeOk \in BOOLEAN, scan \in Scans(tasks) :
     GetTasks(userId, storeOk, scan)

SpecSort == InitSort /\ [][NextSort]_vars

\* --------------------------------------- SpecUsers: two users, one store
\* users 1 and 2 create, edit, delete and read tasks and context entries;
\* 3 is the id of no user
OwnerBodies ==
  [ userId : {UNDEFINED, 1, 2}, title : {"raw"}, description : {UndefinedStr},
    priority : {UNDEFINED}, useAI : {FALSE}, naturalLanguage : {FALSE} ]
TitleBodies ==
  [ title : {"edited"}, description : {UndefinedStr}, priority : {UNDEFINED},
    status : {UndefinedStr}, deadline : {UNDEFINED} ]
OwnerEntries ==
  [ userId : {UNDEFINED, 1, 2}, content : {"c"}, entryType : {"note"},
    entryDate : {UNDEFINED} ]

NextUsers ==
  \/ \E body \in OwnerBodies : MayInsert(nextTaskId, MaxOwned) /\ PostTasks(body)
  \/ \E storeOk \in BOOLEAN : PostCreateTask(storeOk)
  \/ \E taskId \in 1..MaxOwned, body \in TitleBodies, storeOk \in BOOLEAN :
        PutTask(taskId, body, storeOk)
  \/ \E taskId \in 1..MaxOwned, storeOk \in BOOLEAN : DeleteTask(taskId, storeOk)
  \/ \E body \in OwnerEntries, storeOk \in BOOLEAN :
        MayInsert(nextContextId, MaxEntries) /\ PostContext(body, storeOk)
  \/ \E userId \in {UNDEFINED, 1, 2, 3}, storeOk \in BOOLEAN, scan \in Scans(tasks) :
        GetTasks(userId, storeOk, scan)
  \/ \E userId \in {UNDEFINED, 1, 2, 3}, days \in {UNDEFINED, 1}, storeOk \in BOOLEAN,
        scan \in Scans(contextEntries) : GetContext(userId, days, storeOk, scan)

SpecUsers == Init /\ [][NextUsers]_vars

\* ------------------------------------ SpecDelete: deleting tasks
\* POST /tasks without AI, PUT /tasks/{id} that moves the status on, and
\* DELETE /tasks/{id} of ids in and beyond those handed out
ProgressBodies ==
  [ title : {UndefinedStr}, description : {UndefinedStr}, priority : {UNDEFINED},
    status : {"in_progress", "completed"}, deadline : {UNDEFINED} ]

NextDelete ==
  \/ \E body \in PostBodies : MayInsert(nextTaskId, MaxDeleted) /\ PostTasks(body)
  \/ \E storeOk \in BOOLEAN : PostCreateTask(storeOk)
  \/ \E taskId \in 1..MaxDeleted, body \in ProgressBodies, storeOk \in BOOLEAN :
        PutTask(taskId, body, storeOk)
  \/ \E taskId \in 1..MaxDeleted, storeOk \in BOOLEAN : DeleteTask(taskId, storeOk)

SpecDelete == Init /\ [][NextDelete]_vars

\* ----------------------------- SpecInsights: analysis and recommendations
\* one user's tasks (created, some completed) and notes, read by
\* POST /ai/analyze and POST /ai/recommendations, with the answers of the
\* completion service (before schema validation) that the claims tell apart
DoneBodies ==
  [ title : {UndefinedStr}, description : {UndefinedStr}, priority : {UNDEFINED},
    status : {"completed"}, deadline : {UNDEFINED} ]
NoteBodies ==
  [ userId : {1}, content : {"c"}, entryType : {"note"}, entryDate : {UNDEFINED} ]
ReplyLengths == {0, 1, 6}
Recommendation == [ title : {"raw", "follow up"}, priority : {1, 5} ]
RecommendationReplies ==
  { [ i \in 1..n |-> rec ] : n \in ReplyLengths, rec \in Recommendation }
AnalysisReplies == [ workloadAssessment : {UndefinedStr, "manageable"} ]

NextInsights ==
  \/ \E body \in PostBodies : MayInsert(nextTaskId, MaxAnalysed) /\ PostTasks(body)
  \/ \E storeOk \in BOOLEAN : PostCreateTask(storeOk)
  \/ \E taskId \in 1..MaxAnalysed, body \in DoneBodies, storeOk \in BOOLEAN :
        PutTask(taskId, body, storeOk)
  \/ \E body \in NoteBodies, storeOk \in BOOLEAN :
        MayInsert(nextContextId, MaxNotes) /\ PostContext(body, storeOk)
  \/ \E userId \in {UNDEFINED, NotANumber, 1}, storeOk \in BOOLEAN,
        scanTasks \in Scans(tasks), scanEntries \in Scans(contextEntries),
        served \in BOOLEAN, recommendations \in RecommendationReplies :
        PostRecommendations(userId, storeOk, scanTasks, scanEntries, served,
                            recommendations)
  \/ \E userId \in {UNDEFINED, NotANumber, 1}, storeOk \in BOOLEAN,
        scanTasks \in Scans(tasks), scanEntries \in Scans(contextEntries),
        served \in BOOLEAN, obj \in AnalysisReplies :
        PostAnalyze(userId, storeOk, scanTasks, scanEntries, served, obj)

SpecInsights == Init /\ [][NextInsights]_vars

\* ------------------------------- SpecWindow: the window of getContextEntries
\* GET /context over every context_entries table of at most MaxWindowRows
\* rows of user 1, on day Today, with entries dated 10, 7 and 3 days ago,
\* today and tomorrow (POST /context stores the entryDate the caller gives)
Today == 11
WindowKeys == [ entry_date : {1, 4, 8, 11, 12}, created_at : {10, 11} ]

WindowRow(id, key) ==
  [ id |-> id, user_id |-> 1, content |-> "c", entry_type |-> "note",
    entry_date |-> key.entry_date, created_at |-> key.created_at ]

InitWindow ==
  /\ \E n \in 0..MaxWindowRows : \E keys \in [1..n -> WindowKeys] :
        /\ contextEntries = { WindowRow(id, keys[id]) : id \in 1..n }
        /\ nextContextId = n + 1
  /\ tasks = {}
  /\ nextTaskId = 1
  /\ now = Today
  /\ req = Idle
  /\ resp = NoResponse
  /\ InitUI

NextWindow ==
  \E userId \in {UNDEFINED, 1}, days \in {UNDEFINED, 3}, storeOk \in BOOLEAN,
     scan \in Scans(contextEntries) : GetContext(userId, days, storeOk, scan)

SpecWindow == InitWindow /\ [][NextWindow]_vars

\* ------------------------------------ SpecEntries: creating context entries
\* POST /context and direct calls of Database.createContextEntry, with and
\* without a date, over the days 1..MaxDay
DatedBodies ==
  [ userId : {UNDEFINED, 1}, content : {"c"}, entryType : {UndefinedStr, "note"},
    entryDate : {UNDEFINED, 1, 2} ]
EntryRecords ==
  [ user_id : {1}, content : {"c"}, entry_type : {"note"},
    entry_date : {UNDEFINED, 1, 2} ]

NextEntries ==
  \/ \E body \in DatedBodies, storeOk \in BOOLEAN :
        MayInsert(nextContextId, MaxStored) /\ PostContext(body, storeOk)
  \/ \E entry \in EntryRecords, storeOk \in BOOLEAN :
        MayInsert(nextContextId, MaxStored) /\ CreateContextEntry(entry, storeOk)
  \/ NextDay

SpecEntries == Init /\ [][NextEntries]_vars

\* ------------------------------------- SpecEndpoints: every endpoint
\* all the handlers over one store, requests of other endpoints arriving
\* between the awaits of a POST /tasks
EndpointBodies ==
  [ userId : {UNDEFINED, 1}, title : {"raw"}, description : {UndefinedStr},
    priority : {UNDEFINED}, useAI : BOOLEAN, naturalLanguage : BOOLEAN ]
EndpointObjects ==
  [ title : {"parsed"}, description : {"pd"}, priority : {1, 5},
    deadline : {UNDEFINED}, contextTags : {<<"work">>} ]
EndpointReplies == { <<>>, <<[ title |-> "follow up", priority |-> 1 ]>>,
                     <<[ title |-> "follow up", priority |-> 5 ]>> }

NextEndpoints ==
  \/ \E body \in EndpointBodies : MayInsert(nextTaskId, MaxHandled) /\ PostTasks(body)
  \/ \E storeOk \in BOOLEAN, scan \in Scans(contextEntries) : PostGetContext(storeOk, scan)
  \/ \E served \in BOOLEAN, obj \in EndpointObjects : PostAI(served, obj)
  \/ \E storeOk \in BOOLEAN : PostCreateTask(storeOk)
  \/ \E taskId \in 1..MaxHandled, body \in DoneBodies, storeOk \in BOOLEAN :
        PutTask(taskId, body, storeOk)
  \/ \E taskId \in 1..MaxHandled, storeOk \in BOOLEAN : DeleteTask(taskId, storeOk)
  \/ \E userId \in {UNDEFINED, 1}, storeOk \in BOOLEAN, scan \in Scans(tasks) :
        GetTasks(userId, storeOk, scan)
  \/ \E userId \in {UNDEFINED, 1}, storeOk \in BOOLEAN, scan \in Scans(contextEntries) :
        GetContext(userId, UNDEFINED, storeOk, scan)
  \/ \E body \in ContextBodies, storeOk \in BOOLEAN :
        MayInsert(nextContextId, MaxRecorded) /\ PostContext(body, storeOk)
  \/ \E userId \in {UNDEFINED, 1}, storeOk \in BOOLEAN, scanTasks \in Scans(tasks),
        scanEntries \in Scans(contextEntries), served \in BOOLEAN,
        recommendations \in EndpointReplies :
        PostRecommendations(userId, storeOk, scanTasks, scanEntries, served,
                            recommendations)
  \/ \E userId \in {UNDEFINED, 1}, storeOk \in BOOLEAN, scanTasks \in Scans(tasks),
        scanEntries \in Scans(contextEntries), served \in BOOLEAN,
        obj \in AnalysisReplies :
        PostAnalyze(userId, storeOk, scanTasks, scanEntries, served, obj)

SpecEndpoints == Init /\ [][NextEndpoints]_vars

\* --------------------------------------- SpecStamp: the timestamps of a task
\* POST /tasks without AI and PUT /tasks/{id} with and without a status,
\* while the clock runs
StampBodies ==
  [ title : {UndefinedStr, "edited"}, description : {UndefinedStr},
    priority : {UNDEFINED}, status : {UndefinedStr, "pending", "completed"},
    deadline : {UNDEFINED} ]

NextStamp ==
  \/ \E body \in PostBodies : MayInsert(nextTaskId, MaxStamped) /\ PostTasks(body)
  \/ \E storeOk \in BOOLEAN : PostCreateTask(storeOk)
  \/ \E taskId \in 1..MaxStamped, body \in StampBodies, storeOk \in BOOLEAN :
        PutTask(taskId, body, storeOk)
  \/ Tick

SpecStamp == Init /\ [][NextStamp]_vars

\* ------------------------------ SpecAdvisory: suggestions after creation
\* POST /tasks with useAI, then PUT /tasks/{id} whose body carries, besides
\* the keys the handler reads, keys it does not read
AdvisedBodies ==
  [ userId : {1}, title : {"raw"}, description : {UndefinedStr},
    priority : {UNDEFINED}, useAI : {TRUE}, naturalLanguage : {FALSE} ]
AdvisedObjects ==
  [ title : {"parsed"}, description : {"pd"}, priority : {1},
    deadline : {UNDEFINED, 1}, contextTags : {<<"work">>} ]
ExtraKeyBodies ==
  [ title : {UndefinedStr, "edited"}, description : {UndefinedStr},
    priority : {UNDEFINED, 2}, status : {UndefinedStr}, deadline : {UNDEFINED, 2},
    ai_suggested_priority : {UNDEFINED, 3}, ai_suggested_deadline : {2},
    context_tags : {<<"x">>}, user_id : {UNDEFINED, 2}, id : {9}, created_at : {2} ]

NextAdvisory ==
  \/ \E body \in AdvisedBodies : MayInsert(nextTaskId, MaxAdvised) /\ PostTasks(body)
  \/ \E storeOk \in BOOLEAN, scan \in Scans(contextEntries) : PostGetContext(storeOk, scan)
  \/ \E served \in BOOLEAN, obj \in AdvisedObjects : PostAI(served, obj)
  \/ \E storeOk \in BOOLEAN : PostCreateTask(storeOk)
  \/ \E taskId \in 1..MaxAdvised, body \in ExtraKeyBodies, storeOk \in BOOLEAN :
        PutTask(taskId, body, storeOk)
  \/ \E userId \in {1}, storeOk \in BOOLEAN, scan \in Scans(tasks) :
        GetTasks(userId, storeOk, scan)

SpecAdvisory == Init /\ [][NextAdvisory]_vars

\* ------------------------------- SpecSubsets: the bodies of PUT /tasks/{id}
\* POST /tasks without AI, then PUT /tasks/{id} with every subset of title,
\* description, priority, status and deadline, over a store that executes
\* every statement it is sent
SubsetBodies ==
  [ title : {UndefinedStr, "edited"}, description : {UndefinedStr, "d"},
    priority : {UNDEFINED, 2}, status : {UndefinedStr, "in_progress"},
    deadline : {UNDEFINED, 2} ]

NextSubsets ==
  \/ \E body \in PostBodies : MayInsert(nextTaskId, MaxPatched) /\ PostTasks(body)
  \/ PostCreateTask(TRUE)
  \/ \E taskId \in 1..MaxPatched, body \in SubsetBodies : PutTask(taskId, body, TRUE)

SpecSubsets == Init /\ [][NextSubsets]_vars

\* ------------------------- SpecPanel: the recommendations of AIInsights
\* Add Task clicks, their responses, refreshes of the recommendations and of
\* the analysis. A recommendation is known by its number; a refresh answers
\* with the first n of them.
RecommendationLists == { [ i \in 1..n |-> i ] : n \in 0..MaxShown }
Creating == { fetch \in fetches : fetch.kind = "createTaskFromRecommendation" }

NextPanel ==
  \/ loadAnalysis
  \/ \E outcome \in Outcomes : loadAnalysisSettled(outcome)
  \/ loadRecommendations
  \/ \E outcome \in Outcomes, recommendations \in RecommendationLists :
        loadRecommendationsSettled(outcome, recommendations)
  \/ \E index \in 0..(MaxShown - 1) :
        Cardinality(Creating) < MaxInFlight /\ createTaskFromRecommendation(index)
  \/ \E fetch \in fetches, outcome \in Outcomes :
        createTaskFromRecommendationSettled(fetch, outcome)

SpecPanel == Init /\ [][NextPanel]_vars

\* ----------------------------- SpecScreen: the three components, fairly
\* every handler of the three components; a fetch that is in flight settles.
\* A refresh answers with no recommendation or with two, the form is filled
\* in, the context is blank or a note.
ScreenLists == { <<>>, <<1, 2>> }
TaskFormInputs == { [ title |-> "t", description |-> "d", priority |-> "1" ] }
ContextInputs == {" ", "c"}

NextScreen ==
  \/ loadAnalysis
  \/ \E outcome \in Outcomes : loadAnalysisSettled(outcome)
  \/ loadRecommendations
  \/ \E outcome \in Outcomes, recommendations \in ScreenLists :
        loadRecommendationsSettled(outcome, recommendations)
  \/ \E index \in {0, 1} : createTaskFromRecommendation(index)
  \/ \E fetch \in fetches, outcome \in Outcomes :
        createTaskFromRecommendationSettled(fetch, outcome)
  \/ \E inputs \in TaskFormInputs : TaskFormChange(inputs)
  \/ TaskFormSubmit
  \/ \E outcome \in Outcomes : TaskFormSettled(outcome)
  \/ \E content \in ContextInputs : ContextManagerChange(content)
  \/ ContextManagerSubmit
  \/ \E outcome \in Outcomes : ContextManagerSettled(outcome)

FetchesSettle ==
  /\ WF_vars(\E outcome \in Outcomes : loadAnalysisSettled(outcome))
  /\ WF_vars(\E outcome \in Outcomes, recommendations \in ScreenLists :
               loadRecommendationsSettled(outcome, recommendations))
  /\ WF_vars(\E fetch \in fetches, outcome \in Outcomes :
               createTaskFromRecommendationSettled(fetch, outcome))
  /\ WF_vars(\E outcome \in Outcomes : TaskFormSettled(outcome))
  /\ WF_vars(\E outcome \in Outcomes : ContextManagerSettled(outcome))

SpecScreen == Init /\ [][NextScreen]_vars /\ FetchesSettle

\* ================================================================ claims
Called(r, name) == \E i \in 1..Len(r.calls) : r.calls[i] = name
TimesCalled(r, name) == Cardinality({ i \in 1..Len(r.calls) : r.calls[i] = name })

\* a POST /tasks request returns in this step
PostReturns == req.pc # "idle" /\ req'.pc = "idle" /\ resp'.op = "POST /tasks"
\* the response in this state is a success of POST /tasks
PostSucceeded == resp.op = "POST /tasks" /\ resp.status = 200

C2_PlainCreateKeepsCallerFields ==
  (PostSucceeded /\ ~resp.body.useAI /\ ~resp.body.naturalLanguage) =>
     /\ resp.task \in tasks
     /\ resp.task.title = resp.body.title
     /\ resp.task.description =
           (IF resp.body.description = UndefinedStr THEN NullStr
            ELSE resp.body.description)
     /\ resp.task.priority =
           (IF resp.body.priority = UNDEFINED THEN 3 ELSE resp.body.priority)
     /\ resp.task.deadline = NULL
     /\ resp.task.ai_suggested_priority = NULL
     /\ resp.task.ai_suggested_deadline = NULL
     /\ resp.calls = <<"createTask">>

\* C3: when the AI gateway call of a POST /tasks request throws, the request
\* returns a failure response, createTask is not called for it, and the tasks
\* table is not changed.  (SpecCreate)
C3_AIFailureFailsTheRequest ==
  [][ (PostReturns /\ resp'.thrown = "ai") =>
         /\ resp'.status = 500
         /\ ~Called(resp', "createTask")
         /\ tasks' = tasks ]_vars

C3_Witness ==
  /\ resp.op = "POST /tasks"
  /\ resp.thrown = "ai"
  /\ resp.body.naturalLanguage
  /\ Called(resp, "parseNaturalLanguageTask")

\* the store and AI calls of a successful request, branch by branch
BranchCalls(body) ==
  IF body.naturalLanguage
  THEN <<"getContextEntries", "parseNaturalLanguageTask", "createTask">>
  ELSE IF body.useAI
  THEN <<"getContextEntries", "suggestTaskPriority", "createTask">>
  ELSE <<"createTask">>

\* C4: a POST /tasks request that returns a success response has called
\* createTask exactly once, as the last of its calls, in each of the three
\* branches (naturalLanguage, useAI, plain), and the task in the response is
\* the row that call inserted.  (SpecCreate)
C4_SuccessMeansOneFinalCreateTask ==
  [][ (PostReturns /\ resp'.status = 200) =>
         /\ Len(resp'.calls) >= 1
         /\ resp'.calls[Len(resp'.calls)] = "createTask"
         /\ TimesCalled(resp', "createTask") = 1
         /\ resp'.calls = BranchCalls(resp'.body)
         /\ resp'.task \notin tasks
         /\ tasks' = tasks \cup {resp'.task} ]_vars

C4_Witness ==
  /\ PostSucceeded
  /\ resp.body.useAI /\ ~resp.body.naturalLanguage
  /\ resp.calls = <<"getContextEntries", "suggestTaskPriority", "createTask">>
  /\ resp.task \in tasks

\* C5: a POST /tasks with naturalLanguage true persists exactly the title,
\* description, priority, deadline and context tags that
\* parseNaturalLanguageTask returned, not the raw input title, leaves
\* ai_suggested_priority and ai_suggested_deadline unset and does not call
\* suggestTaskPriority.  (SpecCreate)
C5_ParsedFieldsAreStored ==
  (PostSucceeded /\ resp.body.naturalLanguage) =>
     /\ resp.task \in tasks
     /\ resp.task.title = resp.ai.title
     /\ resp.task.title # resp.body.title
     /\ resp.task.description = resp.ai.description
     /\ resp.task.priority = resp.ai.priority
     /\ resp.task.deadline =
           (IF resp.ai.deadline \in {UNDEFINED, EmptyDate} THEN NULL
            ELSE resp.ai.deadline)
     /\ resp.task.context_tags = resp.ai.contextTags
     /\ resp.task.ai_suggested_priority = NULL
     /\ resp.task.ai_suggested_deadline = NULL
     /\ ~Called(resp, "suggestTaskPriority")

\* C6: a POST /tasks with useAI true and naturalLanguage false, whose
\* suggestion has priority p and deadline D, persists priority = p,
\* ai_suggested_priority = p, deadline = D and ai_suggested_deadline = D; when
\* the suggestion carries no deadline (none, or the empty string) both
\* deadline and ai_suggested_deadline are unset.  (SpecCreate)
C6_SuggestionIsStoredAndPromoted ==
  (PostSucceeded /\ resp.body.useAI /\ ~resp.body.naturalLanguage) =>
     /\ resp.task \in tasks
     /\ resp.task.priority = resp.ai.priority
     /\ resp.task.ai_suggested_priority = resp.ai.priority
     /\ IF resp.ai.deadline \in {UNDEFINED, EmptyDate}
        THEN /\ resp.task.deadline = NULL
             /\ resp.task.ai_suggested_deadline = NULL
        ELSE /\ resp.task.deadline = resp.ai.deadline
             /\ resp.task.ai_suggested_deadline = resp.ai.deadline

C6_Witness ==
  /\ PostSucceeded
  /\ resp.body.useAI /\ ~resp.body.naturalLanguage
  /\ resp.ai.priority = 1
  /\ resp.ai.deadline = 1
  /\ resp.task.deadline = 1

Range(s) == { s[i] : i \in 1..Len(s) }

\* the response in this state is a success of GET /tasks
GetSucceeded == resp.op = "GET /tasks" /\ resp.status = 200

\* in the order of C9, a may stand before b
MayPrecede(a, b) ==
  LET doneA == a.status = "completed"
      doneB == b.status = "completed"
  IN  \/ ~doneA /\ doneB
      \/ /\ doneA = doneB
         /\ \/ a.priority < b.priority
            \/ /\ a.priority = b.priority
               /\ \/ a.deadline # NULL /\ b.deadline = NULL
                  \/ a.deadline # NULL /\ b.deadline # NULL /\ a.deadline < b.deadline
                  \/ a.deadline = b.deadline /\ a.created_at >= b.created_at

\* C9: getTasks returns the tasks sorted by the key (completed after every
\* non-completed task, then priority ascending, then deadline ascending with
\* tasks without a deadline last, then created_at descending): no completed
\* task precedes a non-completed one, and priority is non-decreasing within a
\* completion bucket.  (SpecSort)
C9_GetTasksIsSorted ==
  GetSucceeded =>
     \A i, j \in 1..Len(resp.tasks) :
        i < j =>
           /\ MayPrecede(resp.tasks[i], resp.tasks[j])
           /\ ~(resp.tasks[i].status = "completed" /\ resp.tasks[j].status # "completed")
           /\ (resp.tasks[i].status = "completed") = (resp.tasks[j].status = "completed")
                 => resp.tasks[i].priority <= resp.tasks[j].priority

C9_Witness ==
  /\ GetSucceeded
  /\ Len(resp.tasks) = 2
  /\ resp.tasks[1].id = 2
  /\ resp.tasks[1].status = "in_progress" /\ resp.tasks[2].status = "pending"
  /\ resp.tasks[1].priority = resp.tasks[2].priority
  /\ resp.tasks[1].deadline = 2 /\ resp.tasks[2].deadline = NULL

\* C10: getTasks(u) and getContextEntries(u, d) return only records whose
\* owning user id is u, and getTasks(u) returns every stored task of u, each
\* once.  (SpecUsers)
C10_ReadsAreScopedToTheUser ==
  /\ GetSucceeded =>
        /\ \A t \in Range(resp.tasks) : t.user_id = resp.userId
        /\ Range(resp.tasks) = { t \in tasks : t.user_id = resp.userId }
        /\ Len(resp.tasks) = Cardinality(Range(resp.tasks))
  /\ (resp.op = "GET /context" /\ resp.status = 200) =>
        /\ \A e \in Range(resp.contextEntries) : e.user_id = resp.userId
        /\ Range(resp.contextEntries) \subseteq contextEntries

C10_Witness ==
  /\ GetSucceeded
  /\ resp.userId = 1
  /\ Len(resp.tasks) = 1
  /\ \E t \in tasks : t.user_id = 2
  /\ \E e \in contextEntries : e.user_id = 2
  /\ \E e \in contextEntries : e.user_id = 1

\* the response in this state is a success of PUT /tasks/{id}
PutSucceeded == resp.op = "PUT /tasks" /\ resp.status = 200

\* the columns of a task that an update can leave alone
TaskColumns ==
  { "id", "user_id", "title", "description", "priority", "status", "deadline",
    "ai_suggested_priority", "ai_suggested_deadline", "context_tags",
    "created_at", "completed_at" }

\* C11: updateTask(id, partial) changes only the fields present in partial
\* (plus updated_at): every other field of the task keeps its value and is
\* not overwritten with null, and every other task is unchanged.  (SpecFields)
C11_UpdateTouchesOnlyGivenFields ==
  [][ (resp'.op = "PUT /tasks" /\ resp'.status = 200) =>
         LET given == SetClause(PutUpdates(resp'.body, now))
         IN  /\ { t.id : t \in tasks' } = { t.id : t \in tasks }
             /\ \A t \in tasks :
                   IF t.id # resp'.id THEN t \in tasks'
                   ELSE \E n \in tasks' :
                           /\ n.id = t.id
                           /\ \A k \in TaskColumns \ given : n[k] = t[k]
                           /\ \A k \in given : n[k] = PutUpdates(resp'.body, now)[k] ]_vars

C11_Witness ==
  /\ PutSucceeded
  /\ resp.body.title = "edited"
  /\ resp.body.priority = UNDEFINED /\ resp.body.deadline = UNDEFINED
  /\ resp.task.title = "edited"
  /\ resp.task.priority = 4 /\ resp.task.deadline = 2 /\ resp.task.status = "pending"
  /\ \E t \in tasks : t.id # resp.id /\ t.title = "raw"

C13_DeleteIsIdempotent ==
  [][ resp'.op = "DELETE /tasks" =>
         IF resp'.status = 200
         THEN /\ resp'.thrown = "none"
              /\ tasks' = { t \in tasks : t.id # resp'.id }
              /\ (~(\E t \in tasks : t.id = resp'.id)) => tasks' = tasks
         ELSE /\ resp'.thrown = "store"
              /\ tasks' = tasks ]_vars

\* DELETE of an id the sequence never handed out succeeded, and the stored
\* task, a completed one, is still there
C13_Witness ==
  /\ resp.op = "DELETE /tasks" /\ resp.status = 200
  /\ resp.id = 2 /\ nextTaskId = 2
  /\ \E t \in tasks : t.id = 1 /\ t.status = "completed"

\* an optional field reads back as it was given, absent reading back as null
SameOptional(stored, given) ==
  IF given \in {UNDEFINED, NULL} THEN stored = NULL ELSE stored = given

\* row equals the record t in every field but id, created_at and updated_at
RoundTrip(row, t) ==
  /\ row.user_id = t.user_id
  /\ row.title = t.title
  /\ row.description = t.description
  /\ row.priority = t.priority
  /\ row.status = t.status
  /\ SameOptional(row.deadline, t.deadline)
  /\ SameOptional(row.ai_suggested_priority, t.ai_suggested_priority)
  /\ SameOptional(row.ai_suggested_deadline, t.ai_suggested_deadline)
  /\ row.context_tags = t.context_tags

\* C14: for every task record t that createTask accepts (an empty-string
\* description, an empty tag list and absent optional fields included), a
\* following getTasks(t.user_id) contains a task equal to t in every field
\* other than the generated id, created_at and updated_at.  (SpecCreate)
C14_CreateThenGetRoundTrips ==
  [][ (PostReturns /\ resp'.status = 200) =>
         \A scan \in Scans(tasks') :
            LET got == getTasks(req.taskData.user_id, scan)
            IN  \E i \in 1..Len(got) : RoundTrip(got[i], req.taskData) ]_vars

\* POST /ai/recommendations got past validation and read both tables
RecommendationsAnswered ==
  resp.op = "POST /ai/recommendations" /\ resp.status # 400 /\ resp.thrown # "store"

\* C15: recommendTasks(contextEntries, existingTasks) with an empty
\* contextEntries list returns the empty list for any existingTasks and makes
\* no call to the completion service; POST /ai/recommendations then answers
\* {recommendations: []} as a success.  (SpecInsights)
C15_NoContextNoRecommendations ==
  (RecommendationsAnswered /\ Len(resp.contextEntries) = 0) =>
     /\ resp.status = 200
     /\ resp.recommendations = <<>>
     /\ ~Called(resp, "generateObject")
     /\ resp.calls = <<"getTasks", "getContextEntries">>

C15_Witness ==
  /\ RecommendationsAnswered
  /\ Len(resp.contextEntries) = 0
  /\ Len(resp.tasks) = 2
  /\ resp.status = 200
  /\ resp.recommendations = <<>>

\* POST /ai/analyze got past validation and read both tables
AnalysisAnswered ==
  resp.op = "POST /ai/analyze" /\ resp.status # 400 /\ resp.thrown # "store"

\* C16: analyzeTasks(tasks, contextEntries) returns null and makes no call to
\* the completion service exactly when there is no non-completed task and no
\* context entry (all tasks completed included); in every other case it makes
\* exactly one call.  (SpecInsights)
C16_AnalysisShortCircuit ==
  AnalysisAnswered =>
     IF /\ \A i \in 1..Len(resp.tasks) : resp.tasks[i].status = "completed"
        /\ Len(resp.contextEntries) = 0
     THEN /\ resp.status = 200
          /\ resp.analysis = NoAnalysis
          /\ TimesCalled(resp, "generateObject") = 0
     ELSE /\ TimesCalled(resp, "generateObject") = 1
          /\ resp.status = 200 => resp.analysis # NoAnalysis

C16_Witness ==
  /\ AnalysisAnswered
  /\ Len(resp.tasks) = 2
  /\ \A i \in 1..Len(resp.tasks) : resp.tasks[i].status = "completed"
  /\ Len(resp.contextEntries) = 0
  /\ resp.analysis = NoAnalysis
  /\ resp.calls = <<"getTasks", "getContextEntries">>

\* the response in this state is a success of POST /ai/recommendations
RecommendationsReturned ==
  resp.op = "POST /ai/recommendations" /\ resp.status = 200

\* C17: for any answer of the completion service that the gateway accepts,
\* the sequence returned by recommendTasks has length between 0 and 5.
\* (SpecInsights)
C17_AtMostFiveRecommendations ==
  RecommendationsReturned => Len(resp.recommendations) \in 0..5

\* C18: for any answer of the completion service that the gateway accepts,
\* no recommendation returned by recommendTasks(contextEntries, existingTasks)
\* has the title of a task in existingTasks.  (SpecInsights)
C18_NoRecommendationRepeatsATitle ==
  RecommendationsReturned =>
     \A i \in 1..Len(resp.recommendations) :
        \A j \in 1..Len(resp.tasks) :
           resp.recommendations[i].title # resp.tasks[j].title

\* the window that getContextEntries is asked for
WindowDays(days) == IF days = UNDEFINED THEN DefaultDays ELSE days

\* C19: getContextEntries(userId, windowDays) returns exactly the user's
\* entries whose entry_date is within the trailing windowDays-day window
\* (the boundary day included, the window ending today), ordered by
\* entry_date descending then created_at descending.  (SpecWindow)
C19_ContextWindow ==
  (resp.op = "GET /context" /\ resp.status = 200) =>
     LET got == resp.contextEntries
         wanted == { e \in contextEntries :
                       /\ e.user_id = resp.userId
                       /\ e.entry_date >= now - WindowDays(resp.days)
                       /\ e.entry_date <= now }
     IN  /\ Range(got) = wanted
         /\ Len(got) = Cardinality(wanted)
         /\ \A i, j \in 1..Len(got) :
               i < j => \/ got[i].entry_date > got[j].entry_date
                        \/ /\ got[i].entry_date = got[j].entry_date
                           /\ got[i].created_at >= got[j].created_at

\* C20: createContextEntry(entry) with entry_date omitted succeeds and
\* persists an entry dated the day of its creation; with entry_date supplied
\* it persists that date; in both cases it returns the persisted entry, and
\* so does POST /context.  (SpecEntries)
C20_EntryDateDefaultsToCreation ==
  /\ (resp.op = "createContextEntry" /\ resp.thrown # "store") =>
        /\ resp.thrown = "none"
        /\ resp.contextEntry \in contextEntries
        /\ resp.contextEntry.entry_date =
              (IF resp.entry.entry_date = UNDEFINED THEN resp.contextEntry.created_at
               ELSE resp.entry.entry_date)
  /\ (resp.op = "POST /context" /\ resp.status = 200) =>
        /\ resp.contextEntry \in contextEntries
        /\ resp.contextEntry.entry_date =
              (IF resp.body.entryDate = UNDEFINED THEN resp.contextEntry.created_at
               ELSE resp.body.entryDate)

\* the calls to the AI service in a log of calls
AICallNames == { "suggestTaskPriority", "parseNaturalLanguageTask", "generateObject" }
AICalls(calls) == { i \in 1..Len(calls) : calls[i] \in AICallNames }

\* in the log of a POST /tasks request, the AI call comes after the context
\* read and before the one insert
PostCallsInOrder(calls) ==
  /\ Cardinality({ i \in 1..Len(calls) : calls[i] = "createTask" }) <= 1
  /\ \A i \in AICalls(calls) :
        /\ \E h \in 1..(i - 1) : calls[h] = "getContextEntries"
        /\ \A j \in 1..Len(calls) : calls[j] = "createTask" => i < j

\* C21: the handling of one request makes at most one call to the AI service
\* (one call of the gateway, never a second one after a failure), and in
\* POST /tasks that call happens after the context-entry read and before the
\* single task insert.  (SpecEndpoints)
C21_OneAICallInOrder ==
  /\ req.pc # "idle" =>
        /\ Cardinality(AICalls(req.calls)) <= 1
        /\ PostCallsInOrder(req.calls)
  /\ resp.op \in {"POST /tasks", "POST /ai/analyze", "POST /ai/recommendations"} =>
        Cardinality(AICalls(resp.calls)) <= 1
  /\ resp.op = "POST /tasks" => PostCallsInOrder(resp.calls)
  /\ (resp.op \in {"POST /ai/analyze", "POST /ai/recommendations"}
        /\ resp.thrown = "ai") =>
        resp.calls = <<"getTasks", "getContextEntries", "generateObject">>

C21_Witness ==
  /\ PostSucceeded
  /\ resp.body.naturalLanguage
  /\ resp.calls = <<"getContextEntries", "parseNaturalLanguageTask", "createTask">>
  /\ resp.task \in tasks
  /\ contextEntries # {}

\* the endpoints
Endpoints ==
  { "GET /tasks", "POST /tasks", "PUT /tasks", "DELETE /tasks", "GET /context",
    "POST /context", "POST /ai/analyze", "POST /ai/recommendations" }

\* C23: for every endpoint, an error raised by the store or by the AI gateway
\* while handling a request becomes a failure status; no request in which
\* such an error occurred ends with a success response, and the answers of
\* the two short-circuits are successes in which nothing was raised.
\* (SpecEndpoints)
C23_ErrorsBecomeFailures ==
  resp.op \in Endpoints =>
     /\ resp.thrown # "none" => resp.status = 500
     /\ resp.status = 200 => resp.thrown = "none"
     /\ resp.status \in {200, 400, 500}

C23_Witness ==
  /\ resp.op = "POST /ai/analyze"
  /\ resp.thrown = "ai"
  /\ resp.status = 500
  /\ Len(resp.tasks) = 1

\* C24: once a context entry is created, no sequence of endpoint operations
\* (task create, update, delete, context create and read, analyze,
\* recommendations) changes any of its fields or removes it: the set of
\* stored context entries only grows.  (SpecEndpoints)
C24_ContextEntriesOnlyGrow ==
  [][ contextEntries \subseteq contextEntries' ]_vars

\* a context entry is stored and a task has since been created and deleted
C24_Witness ==
  /\ contextEntries # {}
  /\ resp.op = "DELETE /tasks" /\ resp.status = 200
  /\ tasks = {} /\ nextTaskId = 2

\* the endpoints that require fields
Validating ==
  { "GET /tasks", "POST /tasks", "GET /context", "POST /context",
    "POST /ai/analyze", "POST /ai/recommendations" }

\* the required fields that the request of a response lacked
Missing(r) ==
  CASE r.op = "POST /tasks" ->
         { f \in {"userId"} : Falsy(r.body.userId) }
         \cup { f \in {"title"} : FalsyStr(r.body.title) }
    [] r.op = "POST /context" ->
         { f \in {"userId"} : Falsy(r.body.userId) }
         \cup { f \in {"content"} : FalsyStr(r.body.content) }
         \cup { f \in {"entryType"} : FalsyStr(r.body.entryType) }
    [] r.op \in {"GET /tasks", "GET /context"} ->
         { f \in {"userId"} : Falsy(r.userId) }
    [] r.op \in {"POST /ai/analyze", "POST /ai/recommendations"} ->
         { f \in {"userId"} : NoValidUserId(r.userId) }
    [] OTHER -> {}

\* C22: a request lacking a required field is answered with a 4xx response
\* that names the missing field, before any store access or AI call is made,
\* so the store is unchanged.  (SpecEndpoints)
C22_MissingFieldIsNamed ==
  [][ (resp'.op \in Validating /\ Missing(resp') # {}) =>
         /\ resp'.status = 400
         /\ Missing(resp') \subseteq ErrorNames(resp'.op)
         /\ resp'.op \in {"POST /tasks", "POST /ai/analyze", "POST /ai/recommendations"}
               => resp'.calls = <<>>
         /\ tasks' = tasks /\ contextEntries' = contextEntries ]_vars

C26_UpdatedAtIsRefreshed ==
  [][ /\ \A n \in tasks' :
           /\ n.updated_at >= n.created_at
           /\ (~(\E t \in tasks : t.id = n.id)) =>
                 n.created_at = now /\ n.updated_at = now
      /\ \A t \in tasks : \A n \in tasks' :
           n.id = t.id =>
              /\ n.updated_at >= t.updated_at
              /\ n.created_at = t.created_at
              /\ n # t => n.updated_at = now
      /\ (resp'.op = "PUT /tasks" /\ resp'.status = 200) =>
            \A n \in tasks' : n.id = resp'.id => n.updated_at = now ]_vars

\* a task created at time 1 was given a new title at time 2
C26_Witness ==
  /\ PutSucceeded
  /\ resp.body.title = "edited" /\ resp.body.status = UndefinedStr
  /\ resp.task \in tasks
  /\ resp.task.created_at = 1
  /\ resp.task.updated_at = 2

\* the value of field k of a task changed in this step only because a PUT of
\* that task gave it
OnlyPutGives(t, n, k) ==
  n[k] # t[k] =>
     /\ resp'.op = "PUT /tasks" /\ resp'.id = t.id
     /\ resp'.body[k] # UNDEFINED
     /\ n[k] = resp'.body[k]

\* C27: after a task is created, no operation copies ai_suggested_priority or
\* ai_suggested_deadline into priority or deadline, and no PUT /tasks/{id}
\* body (whatever extra keys it carries) changes the task's
\* ai_suggested_priority, ai_suggested_deadline, context_tags, user_id, id or
\* created_at.  (SpecAdvisory)
C27_SuggestionsStayAdvisory ==
  [][ \A t \in tasks :
         /\ \E n \in tasks' : n.id = t.id
         /\ \A n \in tasks' :
               n.id = t.id =>
                  /\ OnlyPutGives(t, n, "priority")
                  /\ OnlyPutGives(t, n, "deadline")
                  /\ n.ai_suggested_priority = t.ai_suggested_priority
                  /\ n.ai_suggested_deadline = t.ai_suggested_deadline
                  /\ n.context_tags = t.context_tags
                  /\ n.user_id = t.user_id
                  /\ n.created_at = t.created_at ]_vars

\* a task whose suggestion (priority 1, deadline 1) was promoted at creation
\* was given priority 2 by a PUT and then a new title by a PUT that carried
\* ai_suggested_priority and user_id keys
C27_Witness ==
  /\ PutSucceeded
  /\ resp.body.title = "edited" /\ resp.body.priority = UNDEFINED
  /\ resp.body.ai_suggested_priority = 3 /\ resp.body.user_id = 2
  /\ resp.task \in tasks
  /\ resp.task.priority = 2 /\ resp.task.deadline = 1
  /\ resp.task.ai_suggested_priority = 1 /\ resp.task.ai_suggested_deadline = 1
  /\ resp.task.user_id = 1 /\ resp.task.id = 1
  /\ resp.task.context_tags = <<"work">>

\* C28: PUT /tasks/{id} on an existing task succeeds and returns the task for
\* every subset of {title, description, priority, status, deadline} in the
\* body, the empty subset included, in which case no field other than
\* updated_at changes.  (SpecSubsets)
C28_EverySubsetIsAccepted ==
  [][ (resp'.op = "PUT /tasks" /\ \E t \in tasks : t.id = resp'.id) =>
         /\ resp'.status = 200
         /\ resp'.task \in tasks'
         /\ resp'.task.id = resp'.id
         /\ SetClause(PutUpdates(resp'.body, now)) = {} =>
               \A t \in tasks :
                  t.id = resp'.id => [ t EXCEPT !.updated_at = now ] \in tasks' ]_vars

\* the fetch of a handler settled in this step
Settles(kind) == handled'.kind = kind
Inputs(form) == <<form.title, form.description, form.priority>>

\* C29: in the AI insights panel, under any interleaving of Add Task clicks,
\* their responses and refreshes of the recommendations, each successful
\* creation removes from the list shown exactly the recommendation the task
\* was created from, and no other.  (SpecPanel)
C29_CreationRemovesTheRecommendationUsed ==
  [][ (Settles("createTaskFromRecommendation") /\ handled'.outcome = "ok") =>
         insights'.recommendations =
           SelectSeq(insights.recommendations,
                     LAMBDA shown : shown # handled'.recommendation) ]_vars

\* C30: every loading flag of the three components (TaskForm.isLoading,
\* ContextManager.isLoading, AIInsights.isLoadingAnalysis,
\* isLoadingRecommendations, isCreatingTask) that a request set is cleared
\* when the request settles, whether with a success, a response that is not
\* ok or a rejection, so no flag stays set forever; and a create request that
\* does not succeed keeps the inputs of the form and the list of
\* recommendations, and does not call onTaskCreated.  (SpecScreen)
C30_LoadingFlagsAreCleared ==
  /\ taskForm.isLoading ~> ~taskForm.isLoading
  /\ contextManager.isLoading ~> ~contextManager.isLoading
  /\ insights.isLoadingAnalysis ~> ~insights.isLoadingAnalysis
  /\ insights.isLoadingRecommendations ~> ~insights.isLoadingRecommendations
  /\ (insights.isCreatingTask # NULL) ~> (insights.isCreatingTask = NULL)
  /\ [][ /\ Settles("TaskForm") => ~taskForm'.isLoading
         /\ Settles("ContextManager") => ~contextManager'.isLoading
         /\ Settles("loadAnalysis") => ~insights'.isLoadingAnalysis
         /\ Settles("loadRecommendations") => ~insights'.isLoadingRecommendations
         /\ Settles("createTaskFromRecommendation") => insights'.isCreatingTask = NULL
         /\ (Settles("TaskForm") /\ handled'.outcome # "ok") =>
               /\ Inputs(taskForm') = Inputs(taskForm)
               /\ ~handled'.notified
         /\ (Settles("createTaskFromRecommendation") /\ handled'.outcome # "ok") =>
               /\ insights'.recommendations = insights.recommendations
               /\ ~handled'.notified ]_vars

\* a filled form whose request was answered with a status that is not ok: the
\* button is enabled again, the inputs are still there
C30_Witness ==
  /\ handled.kind = "TaskForm" /\ handled.outcome = "notOk"
  /\ ~handled.notified
  /\ ~taskForm.isLoading
  /\ Inputs(taskForm) = <<"t", "d", "1">>

====
